---- MODULE Spec2Model ----
(***************************************************************************)
(* SafeChoice (src/app_streamlit.py): the product-safety matching engine   *)
(* check_product_safety, the product lookup get_product_from_openfoodfacts *)
(* and the "Process Barcode" handler of the scan page.                     *)
(*                                                                         *)
(* Python values are tagged records: None is [type |-> "NoneType"], a str  *)
(* is [type |-> "str", v |-> <<characters>>], a dict is                    *)
(* [type |-> "dict", d |-> function from its keys].  A str's characters    *)
(* are one-character TLA+ strings, so that split, strip, lower and `in`    *)
(* are computed character by character as Python computes them.            *)
(***************************************************************************)
EXTENDS Naturals, Sequences, FiniteSets

(***************************************************************************)
(* Bounds of the model.                                                    *)
(***************************************************************************)
\* a user's allergies and health_conditions strings hold at most this many
\* characters together
MaxProfileLen == 3
\* an ingredient text holds at most this many characters
MaxIngLen == 2

(***************************************************************************)
(* Characters and strings.                                                 *)
(***************************************************************************)
\* characters a user's comma-separated field is drawn from
FieldChars == {"a", "B", ",", " "}
\* characters an ingredient text is drawn from
IngChars == {"a", "b", "B", " "}

\* all character sequences over cs of length n / of length at most n
SeqsOfLen(cs, n) == [1..n -> cs]
SeqsUpTo(cs, n) == UNION {SeqsOfLen(cs, k) : k \in 0..n}

Range(s) == {s[i] : i \in 1..Len(s)}

(***************************************************************************)
(* Python values.                                                          *)
(***************************************************************************)
None == [type |-> "NoneType"]
PyStr(s) == [type |-> "str", v |-> s]
\* a value that is neither None nor a str and is truthy (a JSON number, a
\* non-empty JSON list): it has no .lower()
NotAStr == [type |-> "int", v |-> <<>>]
Dict(f) == [type |-> "dict", d |-> f]
EmptyDict == Dict([k \in {} |-> None])

List(xs) == [type |-> "list", v |-> xs]

\* bool(x): None, "", [] and {} are falsy
TruthyUnlessNone(x) == x.type # "NoneType"
Truthy(x) ==
    CASE x.type = "NoneType" -> FALSE
      [] x.type = "str" -> Len(x.v) > 0
      [] x.type = "list" -> Len(x.v) > 0
      [] x.type = "dict" -> DOMAIN x.d # {}
      [] OTHER -> TRUE

\* dict.get(key, default)
GetWithoutDefault(dict, key, default) ==
    IF key \in DOMAIN dict.d THEN dict.d[key] ELSE None
Get(dict, key, default) ==
    IF key \in DOMAIN dict.d THEN dict.d[key] ELSE default

\* str.lower(), one character and a whole str
LowerChar(c) == IF c = "B" THEN "b" ELSE c
lower(s) == [i \in 1..Len(s) |-> LowerChar(s[i])]

IsSpace(c) == c = " "

\* str.strip(): drops leading and trailing whitespace, keeps inner whitespace
RECURSIVE lstrip(_)
lstrip(s) == IF s # <<>> /\ IsSpace(Head(s)) THEN lstrip(Tail(s)) ELSE s
RECURSIVE rstrip(_)
rstrip(s) ==
    IF s # <<>> /\ IsSpace(s[Len(s)]) THEN rstrip(SubSeq(s, 1, Len(s) - 1)) ELSE s
strip(s) == rstrip(lstrip(s))

\* str.split(sep) for a one-character sep: "".split(",") is [""]
RECURSIVE split(_, _)
split(s, sep) ==
    IF \E i \in 1..Len(s) : s[i] = sep
    THEN LET i == CHOOSE j \in 1..Len(s) :
                      s[j] = sep /\ \A k \in 1..(j - 1) : s[k] # sep
         IN  <<SubSeq(s, 1, i - 1)>> \o split(SubSeq(s, i + 1, Len(s)), sep)
    ELSE <<s>>

\* `sub in s` for two strs: sub occurs as a contiguous run of s ("" in s holds)
ContainsWholeWord(sub, s) ==
    \E i \in 0..(Len(s) - Len(sub)) :
        /\ SubSeq(s, i + 1, i + Len(sub)) = sub
        /\ (i = 0 \/ IsSpace(s[i]))
        /\ (i + Len(sub) = Len(s) \/ IsSpace(s[i + Len(sub) + 1]))
Contains(sub, s) ==
    Len(sub) <= Len(s)
    /\ \E i \in 0..(Len(s) - Len(sub)) : SubSeq(s, i + 1, i + Len(sub)) = sub

\* [f(x) for x in xs]
RECURSIVE MapStripLower(_)
MapStripLower(xs) ==
    IF xs = <<>> THEN <<>> ELSE <<lower(strip(Head(xs)))>> \o MapStripLower(Tail(xs))

(***************************************************************************)
(* check_product_safety (lines 128-177).                                   *)
(***************************************************************************)
\* a stored user: the columns of User the engine and the pages read
User(mobile, allergies, health_conditions) ==
    [type |-> "User", mobile |-> mobile,
     allergies |-> PyStr(allergies), health_conditions |-> PyStr(health_conditions)]

\* one st.error / st.success / st.warning / st.subheader call
Shown(fn, msg) == [fn |-> fn, msg |-> msg]

NonEmptyAfterStrip(a) == Len(strip(a)) > 0

\* [a.strip().lower() for a in field.split(",") if a.strip()]
normalize_field_keep_empty(field) == MapStripLower(split(field, ","))
normalize_field(field) ==
    MapStripLower(SelectSeq(split(field, ","), NonEmptyAfterStrip))

RECURSIVE Reverse(_)
Reverse(s) == IF s = <<>> THEN <<>> ELSE Reverse(Tail(s)) \o <<Head(s)>>

\* [t for t in tokens if t and t in ingredients_lower]
conflicting_reversed(tokens, ingredients_lower) ==
    LET Hit(t) == Len(t) > 0 /\ Contains(t, ingredients_lower)
    IN  Reverse(SelectSeq(tokens, Hit))
conflicting(tokens, ingredients_lower) ==
    LET Hit(t) == Len(t) > 0 /\ Contains(t, ingredients_lower)
    IN  SelectSeq(tokens, Hit)

\* not (conflicting_allergies or conflicting_conditions)
is_safe_allergies_only(conflicting_allergies, conflicting_conditions) ==
    conflicting_allergies = <<>>
is_safe_not_negated(conflicting_allergies, conflicting_conditions) ==
    conflicting_allergies # <<>> \/ conflicting_conditions # <<>>
is_safe(conflicting_allergies, conflicting_conditions) ==
    ~(conflicting_allergies # <<>> \/ conflicting_conditions # <<>>)

\* what a call leaves behind: the value returned, the st.error calls made, and
\* the locals bound when it returned (None when it returned before binding them)
Frame(ret, errors, locals) == [ret |-> ret, st_error |-> errors, locals |-> locals]

check_product_safety(product_info, user) ==
    IF ~Truthy(product_info)
    THEN Frame(None, <<Shown("error", "Product information is required")>>, None)
    ELSE IF ~Truthy(user)
    THEN Frame(None, <<Shown("error", "User information is required")>>, None)
    ELSE
      LET user_allergies == normalize_field(user.allergies.v)
          user_conditions == normalize_field(user.health_conditions.v)
          ingredients == Get(product_info, "ingredients", PyStr(<<>>))
      IN  IF ingredients.type # "str"
          THEN \* .lower() raises AttributeError, caught at line 175
               Frame(None, <<Shown("error", "Error checking product safety")>>, None)
          ELSE
            LET ingredients_lower == lower(ingredients.v)
                conflicting_allergies == conflicting(user_allergies, ingredients_lower)
                conflicting_conditions == conflicting(user_conditions, ingredients_lower)
            IN  Frame(
                  Dict([is_safe |-> is_safe(conflicting_allergies, conflicting_conditions),
                        conflicting_allergies |-> conflicting_allergies,
                        conflicting_conditions |-> conflicting_conditions,
                        product_name |-> Get(product_info, "title", PyStr(<<"Unknown">>)),
                        product_brand |-> Get(product_info, "brand", PyStr(<<"Unknown">>)),
                        product_ingredients |-> ingredients]),
                  <<>>,
                  [user_allergies |-> user_allergies,
                   user_conditions |-> user_conditions,
                   ingredients_lower |-> ingredients_lower])

(***************************************************************************)
(* Inputs of the engine.                                                   *)
(***************************************************************************)
\* (allergies, health_conditions) pairs of at most MaxProfileLen characters
Profiles ==
    UNION {SeqsOfLen(FieldChars, k) \X SeqsUpTo(FieldChars, MaxProfileLen - k) :
             k \in 0..MaxProfileLen}
Users == {User("m1", p[1], p[2]) : p \in Profiles}
UserArgs == {None} \cup Users

IngredientTexts == SeqsUpTo(IngChars, MaxIngLen)
IngredientValues == {PyStr(s) : s \in IngredientTexts} \cup {NotAStr}
\* a product dict has its display fields or not, and its ingredients or not
ProductDicts ==
    {EmptyDict}
    \cup {Dict([ingredients |-> i]) : i \in IngredientValues}
    \cup {Dict([title |-> PyStr(<<"Nutella">>), brand |-> PyStr(<<"Ferrero">>)])}
    \cup {Dict([title |-> PyStr(<<"Nutella">>), brand |-> PyStr(<<"Ferrero">>),
                ingredients |-> i]) : i \in IngredientValues}
ProductArgs == {None} \cup ProductDicts

(***************************************************************************)
(* read_barcode (lines 64-92).  An image is what cv2 and pyzbar make of    *)
(* it: an exception, or the barcodes found, each with bytes that decode    *)
(* as UTF-8 to a payload or do not.                                        *)
(***************************************************************************)
ImageRaises == [type |-> "image", raises |-> TRUE, barcodes |-> <<>>]
ImageOf(barcodes) == [type |-> "image", raises |-> FALSE, barcodes |-> barcodes]
Barcode(utf8, text) == [utf8 |-> utf8, data |-> PyStr(text), type |-> "EAN13"]

RECURSIVE DecodedPayloads(_)
DecodedPayloads(barcodes) ==
    IF barcodes = <<>> THEN <<>>
    ELSE (IF Head(barcodes).utf8
          THEN << <<Head(barcodes).data, Head(barcodes).type>> >>
          ELSE <<>>) \o DecodedPayloads(Tail(barcodes))

read_barcode(image) ==
    IF image.raises
    THEN Frame(None, <<Shown("error", "Error processing barcode")>>, None)
    ELSE IF image.barcodes = <<>>
    THEN Frame(None, <<>>, None)
    ELSE Frame(List(DecodedPayloads(image.barcodes)), <<>>, None)

(***************************************************************************)
(* get_product_from_openfoodfacts (lines 94-126).  A response is what      *)
(* requests.get, raise_for_status and response.json() make of the request. *)
(***************************************************************************)
\* requests.get or raise_for_status raises a RequestException
ResponseUnavailable == [kind |-> "RequestException", data |-> None]
\* response.json() raises: a plain ValueError, or requests' own
\* JSONDecodeError, which is a RequestException as well as a ValueError and
\* is caught by the first handler (line 121)
ResponseNotJson(exception) == [kind |-> exception, data |-> None]
ResponseJson(data) == [kind |-> "json", data |-> data]

\* what a lookup leaves behind: the value returned, the st.error calls made,
\* whether an exception escaped it
LookupFrame(ret, errors, raised) == [ret |-> ret, st_error |-> errors, raised |-> raised]

\* product.get("ingredients_text", "") or ""
IngredientsOrEmpty(product) ==
    LET v == Get(product, "ingredients_text", PyStr(<<>>))
    IN  IF Truthy(v) THEN v ELSE PyStr(<<>>)

get_product_from_openfoodfacts(barcode, response) ==
    IF ~Truthy(barcode)
    THEN LookupFrame(None, <<Shown("error", "Barcode cannot be empty")>>, FALSE)
    ELSE IF response.kind \in {"RequestException", "requests.JSONDecodeError"}
    THEN LookupFrame(None, <<Shown("error", "Failed to fetch product data")>>, FALSE)
    ELSE IF response.kind = "ValueError"
    THEN LookupFrame(None, <<Shown("error", "Invalid product data received")>>, FALSE)
    ELSE IF response.data.type # "dict"
    THEN \* data.get raises AttributeError, which no handler catches
         LookupFrame(None, <<>>, TRUE)
    ELSE IF ~Truthy(Get(response.data, "product", None))
    THEN LookupFrame(None, <<>>, FALSE)
    ELSE
      LET product == response.data.d["product"]
      IN  IF product.type # "dict"
          THEN \* product.get raises AttributeError, which no handler catches
               LookupFrame(None, <<>>, TRUE)
          ELSE LookupFrame(
                 Dict([barcode |-> barcode,
                       title |-> Get(product, "product_name", PyStr(<<"No product title found">>)),
                       brand |-> Get(product, "brands", PyStr(<<"Unknown brand">>)),
                       description |-> Get(product, "generic_name",
                                           PyStr(<<"No description available">>)),
                       ingredients |-> IngredientsOrEmpty(product),
                       category |-> Get(product, "categories", PyStr(<<"Unknown category">>))]),
                 <<>>, FALSE)

(***************************************************************************)
(* The "Process Barcode" handler of the scan page (lines 458-512), for a   *)
(* logged-in user found in the store and an uploaded image.                *)
(***************************************************************************)
SafeMessage == Shown("success", "This product appears to be safe for you!")
NotFoundMessage == Shown("error", "Product not found in the database. Try another product.")

\* lines 497-512: what is shown for a safety report
show_safety_report_none_is_safe(safety_report) ==
    IF ~Truthy(safety_report) \/ safety_report.d.is_safe
    THEN <<Shown("subheader", "Safety Analysis"), SafeMessage>>
    ELSE <<Shown("subheader", "Safety Analysis"),
           Shown("error", "This product may not be safe for you!")>>
show_safety_report(safety_report) ==
    IF ~Truthy(safety_report) THEN <<>>
    ELSE <<Shown("subheader", "Safety Analysis")>> \o
         (IF safety_report.d.is_safe
          THEN <<SafeMessage>>
          ELSE <<Shown("error", "This product may not be safe for you!")>> \o
               (IF safety_report.d.conflicting_allergies # <<>>
                THEN <<Shown("warning", "Conflicting Allergies:")>> ELSE <<>>) \o
               (IF safety_report.d.conflicting_conditions # <<>>
                THEN <<Shown("warning", "Conflicting Health Conditions:")>> ELSE <<>>))

(***************************************************************************)
(* Inputs of the scan.                                                     *)
(***************************************************************************)
GoodBarcode == Barcode(TRUE, <<"3017620422003">>)
EmptyBarcode == Barcode(TRUE, <<>>)
BadBarcode == Barcode(FALSE, <<>>)
Images ==
    {ImageRaises, ImageOf(<<>>), ImageOf(<<BadBarcode>>), ImageOf(<<GoodBarcode>>),
     ImageOf(<<EmptyBarcode>>), ImageOf(<<BadBarcode, GoodBarcode>>)}

\* the "product" object of a response: its display fields or not, and its
\* ingredients_text missing, null, a str or something else
DisplayFields ==
    [product_name |-> PyStr(<<"Nutella">>), brands |-> PyStr(<<"Ferrero">>),
     generic_name |-> PyStr(<<"Spread">>), categories |-> PyStr(<<"Spreads">>)]
WithIngredientsText(fields, i) ==
    [k \in DOMAIN fields \cup {"ingredients_text"} |->
        IF k = "ingredients_text" THEN i ELSE fields[k]]
JsonIngredientValues == IngredientValues \cup {None}
JsonProducts ==
    {EmptyDict, Dict(DisplayFields), NotAStr, None}
    \cup {Dict([ingredients_text |-> i]) : i \in JsonIngredientValues}
    \cup {Dict(WithIngredientsText(DisplayFields, i)) : i \in JsonIngredientValues}
Responses ==
    {ResponseUnavailable, ResponseNotJson("ValueError"),
     ResponseNotJson("requests.JSONDecodeError"),
     ResponseJson(List(<<>>)), ResponseJson(Dict([status |-> NotAStr]))}
    \cup {ResponseJson(Dict([status |-> NotAStr, product |-> p])) : p \in JsonProducts}

(***************************************************************************)
(* State.                                                                  *)
(***************************************************************************)
VARIABLES
    pc,               \* "call"/"returned": a call of the engine;
                      \* "scan"/"shown"/"crashed": a run of the scan handler;
                      \* "app": the pages of the application
    product_info,     \* the product: the engine's argument, the lookup's result
    user,             \* the user: the engine's argument, the logged-in user
    safety_report,    \* what check_product_safety returned
    locals,           \* its locals at the return
    display,          \* the st.* calls made, in order
    image,            \* the uploaded image
    barcode_results,  \* what read_barcode returned
    response,         \* the response to the lookup's request, None if none was made
    users,            \* the rows of the users table
    logged_in,        \* st.session_state.logged_in
    user_mobile,      \* st.session_state.user_mobile
    current_page      \* st.session_state.current_page

vars == <<pc, product_info, user, safety_report, locals, display,
          image, barcode_results, response,
          users, logged_in, user_mobile, current_page>>

\* the session state and the users table, which a call of the engine and the
\* Process Barcode handler leave alone
app_vars == <<users, logged_in, user_mobile, current_page>>

\* the engine called on its own
Init ==
    /\ pc = "call"
    /\ product_info \in ProductArgs
    /\ user \in UserArgs
    /\ safety_report = None
    /\ locals = None
    /\ display = <<>>
    /\ image = None
    /\ barcode_results = None
    /\ response = None
    /\ users = {}
    /\ logged_in = FALSE
    /\ user_mobile = None
    /\ current_page = "login"

CallCheckProductSafety ==
    /\ pc = "call"
    /\ LET f == check_product_safety(product_info, user)
       IN  /\ safety_report' = f.ret
           /\ locals' = f.locals
           /\ display' = display \o f.st_error
    /\ pc' = "returned"
    /\ UNCHANGED <<product_info, user, image, barcode_results, response>>
    /\ UNCHANGED app_vars

Next == CallCheckProductSafety

Spec == Init /\ [][Next]_vars

\* the scan page, past its login and user checks, an image uploaded
ScanInit ==
    /\ pc = "scan"
    /\ user \in Users
    /\ image \in Images
    /\ product_info = None
    /\ safety_report = None
    /\ locals = None
    /\ display = <<>>
    /\ barcode_results = None
    /\ response = None
    /\ users = {user}
    /\ logged_in = TRUE
    /\ user_mobile = PyStr(<<user.mobile>>)
    /\ current_page = "scan"

\* lines 458-512, the button pressed
ProcessBarcode ==
    /\ pc = "scan"
    /\ LET rb == read_barcode(image)
       IN  /\ barcode_results' = rb.ret
           /\ IF ~Truthy(rb.ret)
              THEN /\ display' = display \o rb.st_error \o
                          <<Shown("error", "No barcode detected in the image. Please try another image.")>>
                   /\ pc' = "shown"
                   /\ UNCHANGED <<product_info, safety_report, locals, response>>
              ELSE
                \E r \in Responses :
                  LET barcode_data == rb.ret.v[1][1]
                      lookup == get_product_from_openfoodfacts(barcode_data, r)
                      detected == <<Shown("success", "Barcode detected")>>
                  IN  /\ response' = IF Truthy(barcode_data) THEN r ELSE None
                      /\ IF lookup.raised
                         THEN /\ display' = display \o detected \o
                                     <<Shown("exception", "AttributeError")>>
                              /\ pc' = "crashed"
                              /\ UNCHANGED <<product_info, safety_report, locals>>
                         ELSE IF ~Truthy(lookup.ret)
                         THEN /\ product_info' = lookup.ret
                              /\ display' = display \o detected \o lookup.st_error \o
                                     <<NotFoundMessage>>
                              /\ pc' = "shown"
                              /\ UNCHANGED <<safety_report, locals>>
                         ELSE
                           LET f == check_product_safety(lookup.ret, user)
                           IN  /\ product_info' = lookup.ret
                               /\ safety_report' = f.ret
                               /\ locals' = f.locals
                               /\ display' = display \o detected \o
                                      <<Shown("subheader", "Product Information")>> \o
                                      f.st_error \o show_safety_report(f.ret)
                               /\ pc' = "shown"
    /\ UNCHANGED <<user, image>>
    /\ UNCHANGED app_vars

ScanNext == ProcessBarcode

ScanSpec == ScanInit /\ [][ScanNext]_vars

(***************************************************************************)
(* The users table (lines 30-45) and the session state (lines 179-195).    *)
(* The id column is left out: no page reads it.                            *)
(***************************************************************************)
\* at most this many distinct non-empty usernames and mobile numbers are typed
MaxUsers == 2

\* a row of the users table
UserRow(username, name, mobile, age, allergies, health_conditions) ==
    [type |-> "User", username |-> username, name |-> name, mobile |-> mobile,
     age |-> age, allergies |-> allergies, health_conditions |-> health_conditions]

\* db_session.query(User).filter_by(mobile=mobile).first()
query_by_mobile(rows, mobile) ==
    IF \E u \in rows : u.mobile = mobile
    THEN CHOOSE u \in rows : u.mobile = mobile
    ELSE None

\* the unique constraints of the table (lines 34 and 36), checked at commit
ViolatesUnique(rows, row) ==
    \E u \in rows : u.username = row.username \/ u.mobile = row.mobile

\* ", ".join(items)
RECURSIVE Join(_)
Join(items) ==
    IF items = <<>> THEN <<>>
    ELSE IF Len(items) = 1 THEN items
    ELSE <<Head(items), ", ">> \o Join(Tail(items))

\* selected + [custom] if custom, joined (lines 271-274, 291-292, 414-421)
JoinedWithCustom(selected, custom) ==
    PyStr(Join(IF Truthy(custom) THEN Append(selected, custom.v[1]) ELSE selected))

ProtectedPages == {"profile", "update_profile", "scan"}

\* st.session_state
SessionState(li, um, cp) == [logged_in |-> li, user_mobile |-> um, current_page |-> cp]
Session == SessionState(logged_in, user_mobile, current_page)

\* lines 187-189
navigate_to(s, page) == [s EXCEPT !.current_page = page]

\* lines 191-195
logout_keeps_user_mobile(s) == SessionState(FALSE, s.user_mobile, "login")
logout(s) == SessionState(FALSE, None, "login")

\* what one run of the script leaves behind: the session state, the st.* calls
\* made, the user row it resolved (None if none), whether it ended in st.rerun()
Run(s, shown, u, rerun) == [session |-> s, display |-> shown, user |-> u, rerun |-> rerun]

PageTitle(page) ==
    CASE page = "login" -> Shown("title", "Login")
      [] page = "register" -> Shown("title", "Register")
      [] page = "profile" -> Shown("title", "Welcome")
      [] page = "update_profile" -> Shown("title", "Update Profile")
      [] page = "scan" -> Shown("title", "Scan Barcode")

\* the head of a protected page (lines 306-316, 363-373, 437-447)
enter_protected(s, rows) ==
    IF ~s.logged_in
    THEN Run(navigate_to(s, "login"), <<Shown("warning", "Please log in")>>, None, TRUE)
    ELSE LET u == query_by_mobile(rows, s.user_mobile)
         IN  IF ~Truthy(u)
             THEN Run(logout(s), <<Shown("error", "User not found.")>>, None, TRUE)
             ELSE Run(s, <<PageTitle(s.current_page)>>, u, FALSE)

\* a run of the script in which no button is pressed (lines 209-447)
render(s, rows) ==
    IF s.current_page \in ProtectedPages
    THEN enter_protected(s, rows)
    ELSE Run(s, <<PageTitle(s.current_page)>>, None, FALSE)

\* line 277: not username or not name or not mobile
missing_required_mobile_forgotten(form) ==
    ~Truthy(form.username) \/ ~Truthy(form.name)
missing_required(form) ==
    ~Truthy(form.username) \/ ~Truthy(form.name) \/ ~Truthy(form.mobile)

\* lines 269-302: the rows afterwards, the message, whether the user was added
Registration(rows, shown, added) == [users |-> rows, display |-> shown, added |-> added]
register(rows, form, db_ok) ==
    IF missing_required(form)
    THEN Registration(rows,
             Shown("error", "Username, name, and mobile number are required."), FALSE)
    ELSE IF Truthy(query_by_mobile(rows, form.mobile))
    THEN Registration(rows,
             Shown("error", "A user with this mobile number already exists."), FALSE)
    ELSE
      LET new_user == UserRow(form.username, form.name, form.mobile, form.age,
                              JoinedWithCustom(form.selected_allergies, form.custom_allergy),
                              JoinedWithCustom(form.selected_health_conditions,
                                               form.custom_health))
      IN  IF db_ok /\ ~ViolatesUnique(rows, new_user)
          THEN Registration(rows \cup {new_user},
                   Shown("success", "Registration successful! Please login."), TRUE)
          ELSE \* commit raised, db_session.rollback()
               Registration(rows, Shown("error", "An unexpected error occurred"), FALSE)

(***************************************************************************)
(* What is typed and ticked.                                               *)
(***************************************************************************)
TypedNames == {PyStr(<<>>)} \cup {PyStr(<<i>>) : i \in 1..MaxUsers}
CustomTerms == {PyStr(<<>>), PyStr(<<"kiwi">>)}
RegisterForms ==
    [username : TypedNames, name : {PyStr(<<>>), PyStr(<<"Asha">>)}, mobile : TypedNames,
     age : {30},
     selected_allergies : {<<>>, <<"Peanuts">>}, custom_allergy : CustomTerms,
     selected_health_conditions : {<<>>, <<"Diabetes">>}, custom_health : {PyStr(<<>>)}]
UpdateForms ==
    [selected_allergies : {<<>>, <<"Peanuts">>}, custom_allergy : CustomTerms,
     selected_health_conditions : {<<>>, <<"Diabetes">>}, custom_health : {PyStr(<<>>)}]

(***************************************************************************)
(* The application: one action per run of the script.                      *)
(***************************************************************************)
AppInit ==
    /\ pc = "app"
    /\ users = {}
    /\ logged_in = FALSE
    /\ user_mobile = None
    /\ current_page = "login"
    /\ user = None
    /\ display = <<>>
    /\ product_info = None
    /\ safety_report = None
    /\ locals = None
    /\ image = None
    /\ barcode_results = None
    /\ response = None

scan_vars == <<product_info, safety_report, locals, image, barcode_results, response>>

\* the state a run r of the script leaves
Leaves(r) ==
    /\ logged_in' = r.session.logged_in
    /\ user_mobile' = r.session.user_mobile
    /\ current_page' = r.session.current_page
    /\ display' = r.display
    /\ user' = r.user
    /\ pc' = IF r.rerun THEN "rerun" ELSE "app"
    /\ UNCHANGED scan_vars

\* a run with no button pressed: the run that st.rerun() starts, or one that
\* typing in a field or uploading a file starts
Rerun ==
    /\ pc \in {"app", "rerun"}
    /\ Leaves(render(Session, users))
    /\ UNCHANGED users

\* a sidebar button (lines 200-207): the callback, then the run
SidebarNavigate ==
    /\ pc = "app"
    /\ \E page \in (IF logged_in THEN ProtectedPages ELSE {"login", "register"}) :
          Leaves(render(navigate_to(Session, page), users))
    /\ UNCHANGED users

SidebarLogout ==
    /\ pc = "app"
    /\ logged_in
    /\ Leaves(render(logout(Session), users))
    /\ UNCHANGED users

\* lines 215-227
LoginButton ==
    /\ pc = "app"
    /\ current_page = "login"
    /\ \E mobile \in TypedNames :
          IF ~Truthy(mobile)
          THEN Leaves(Run(Session, <<PageTitle("login"),
                                     Shown("error", "Mobile number is required.")>>,
                          None, FALSE))
          ELSE LET u == query_by_mobile(users, mobile)
               IN  IF Truthy(u)
                   THEN Leaves(Run(SessionState(TRUE, u.mobile, "profile"),
                                   <<PageTitle("login"),
                                     Shown("success", "Logged in successfully!")>>,
                                   None, TRUE))
                   ELSE Leaves(Run(Session, <<PageTitle("login"),
                                     Shown("error", "User not found. Please register first.")>>,
                                   None, FALSE))
    /\ UNCHANGED users

\* lines 230-231
GoToRegister ==
    /\ pc = "app"
    /\ current_page = "login"
    /\ Leaves(Run(navigate_to(Session, "register"), <<PageTitle("login")>>, None, TRUE))
    /\ UNCHANGED users

\* lines 269-302
RegisterButton ==
    /\ pc = "app"
    /\ current_page = "register"
    /\ \E form \in RegisterForms, db_ok \in BOOLEAN :
          LET r == register(users, form, db_ok)
          IN  /\ users' = r.users
              /\ Leaves(Run(IF r.added THEN navigate_to(Session, "login") ELSE Session,
                            <<PageTitle("register"), r.display>>, None, r.added))

\* lines 354-361: the page's head runs first, then the pressed button
ProfileButton ==
    /\ pc = "app"
    /\ current_page = "profile"
    /\ \E page \in {"scan", "update_profile"} :
          LET head == enter_protected(Session, users)
          IN  IF head.rerun THEN Leaves(head)
              ELSE Leaves(Run(navigate_to(Session, page), head.display, head.user, TRUE))
    /\ UNCHANGED users

\* lines 412-431
SaveChanges ==
    /\ pc = "app"
    /\ current_page = "update_profile"
    /\ LET head == enter_protected(Session, users)
       IN  IF head.rerun THEN Leaves(head) /\ UNCHANGED users
           ELSE \E form \in UpdateForms, db_ok \in BOOLEAN :
                  LET updated ==
                        [head.user EXCEPT
                           !.allergies = JoinedWithCustom(form.selected_allergies,
                                                          form.custom_allergy),
                           !.health_conditions =
                               JoinedWithCustom(form.selected_health_conditions,
                                                form.custom_health)]
                  IN  IF db_ok
                      THEN /\ users' = (users \ {head.user}) \cup {updated}
                           /\ Leaves(Run(Session,
                                  head.display \o
                                    <<Shown("success", "Profile updated successfully!")>>,
                                  updated, FALSE))
                      ELSE \* commit raised, db_session.rollback()
                           /\ users' = users
                           /\ Leaves(Run(Session,
                                  head.display \o
                                    <<Shown("error", "An unexpected error occurred")>>,
                                  head.user, FALSE))

\* lines 434-435
BackToProfile ==
    /\ pc = "app"
    /\ current_page = "update_profile"
    /\ LET head == enter_protected(Session, users)
       IN  IF head.rerun THEN Leaves(head)
           ELSE Leaves(Run(navigate_to(Session, "profile"), head.display, head.user, TRUE))
    /\ UNCHANGED users

\* users.db is a file outside the program: a row is deleted from it
RowDeletedOutside ==
    /\ pc \in {"app", "rerun"}
    /\ \E u \in users : users' = users \ {u}
    /\ UNCHANGED <<pc, user, display, logged_in, user_mobile, current_page>>
    /\ UNCHANGED scan_vars

AppNext ==
    \/ Rerun
    \/ SidebarNavigate
    \/ SidebarLogout
    \/ LoginButton
    \/ GoToRegister
    \/ RegisterButton
    \/ ProfileButton
    \/ SaveChanges
    \/ BackToProfile
    \/ RowDeletedOutside

AppSpec == AppInit /\ [][AppNext]_vars

(***************************************************************************)
(* Properties of a returned call.                                          *)
(***************************************************************************)
Returned == pc = "returned"
\* the call returned a verdict dict
HasVerdict == Returned /\ safety_report.type = "dict"
\* the call returned None after one of the two missing-input messages
InvalidInput ==
    /\ Returned
    /\ safety_report = None
    /\ \/ display = <<Shown("error", "Product information is required")>>
       \/ display = <<Shown("error", "User information is required")>>

\* t occurs in s as a contiguous run of characters
Occurs(t, s) ==
    \E i \in 0..Len(s) :
        /\ i + Len(t) <= Len(s)
        /\ \A k \in 1..Len(t) : s[i + k] = t[k]

\* the ingredient text of a product dict ("" when it has none), raw and
\* lower-cased
IngredientText(p) ==
    IF "ingredients" \in DOMAIN p.d THEN p.d["ingredients"].v ELSE <<>>
Haystack(p) == lower(IngredientText(p))

\* a conflict sequence holds exactly the tokens that occur in the haystack
ExactlyTheOccurring(conflicts, tokens, hay) ==
    /\ \A i \in 1..Len(tokens) : (tokens[i] \in Range(conflicts)) <=> Occurs(tokens[i], hay)
    /\ Range(conflicts) \subseteq Range(tokens)

\* C1: in every verdict, a normalized allergy token is in conflicting_allergies
\* iff it occurs as a contiguous substring of the lower-cased ingredient text,
\* and likewise a condition token and conflicting_conditions; matching is plain
\* substring containment, not whole-word.
C1_SubstringEquivalence ==
    HasVerdict =>
        /\ ExactlyTheOccurring(safety_report.d.conflicting_allergies,
                               locals.user_allergies, Haystack(product_info))
        /\ ExactlyTheOccurring(safety_report.d.conflicting_conditions,
                               locals.user_conditions, Haystack(product_info))

\* allergies "B,a" against ingredients "aa": "a" is reported though it is only
\* part of the word "aa", "b" is not reported
C1_Witness ==
    /\ HasVerdict
    /\ user.allergies.v = <<"B", ",", "a">>
    /\ IngredientText(product_info) = <<"a", "a">>
    /\ safety_report.d.conflicting_allergies = << <<"a">> >>

\* C2: in every verdict, is_safe is true iff conflicting_allergies and
\* conflicting_conditions are both empty.
C2_SafeIffNoConflicts ==
    HasVerdict =>
        (safety_report.d.is_safe <=>
            /\ safety_report.d.conflicting_allergies = <<>>
            /\ safety_report.d.conflicting_conditions = <<>>)

\* a verdict made unsafe by a condition alone
C2_Witness ==
    /\ HasVerdict
    /\ safety_report.d.conflicting_allergies = <<>>
    /\ safety_report.d.conflicting_conditions # <<>>
    /\ ~safety_report.d.is_safe

\* C3 as stated: the call fails with the missing-input error, returning no
\* verdict, exactly when the product is None or the user is None.
C3_InvalidInputIffNone ==
    Returned =>
        /\ InvalidInput <=> (product_info = None \/ user = None)
        /\ InvalidInput => ~HasVerdict

\* C3 as amended: the call fails with the missing-input error, returning no
\* verdict, exactly when the product is None or an empty dict, or the user is
\* None.
C3_InvalidInputIffFalsy ==
    Returned =>
        /\ InvalidInput <=> (product_info = None \/ product_info = EmptyDict \/ user = None)
        /\ InvalidInput => ~HasVerdict

\* the user is missing while the product is not
C3_Witness ==
    /\ InvalidInput
    /\ user = None
    /\ product_info.type = "dict"
    /\ "ingredients" \in DOMAIN product_info.d

\* the ingredient text of p is missing or empty
NoIngredientText(p) ==
    \/ "ingredients" \notin DOMAIN p.d
    \/ p.d["ingredients"] = PyStr(<<>>)

SafeWithNoConflicts ==
    /\ HasVerdict
    /\ safety_report.d.is_safe
    /\ safety_report.d.conflicting_allergies = <<>>
    /\ safety_report.d.conflicting_conditions = <<>>

\* C4 as stated: for every user and product that are not None the call returns
\* a verdict, and when the ingredient text is missing or empty the verdict is
\* safe with both conflict sequences empty.
C4_VerdictForEveryPresentInput ==
    (Returned /\ product_info # None /\ user # None) =>
        /\ HasVerdict
        /\ NoIngredientText(product_info) => SafeWithNoConflicts

\* C4 as amended: for every user that is not None and every product that is a
\* non-empty dict whose ingredient text is missing or a str, the call returns a
\* verdict, and when the ingredient text is missing or empty the verdict is
\* safe with both conflict sequences empty.
C4_VerdictForEveryUsableInput ==
    (/\ Returned
     /\ user # None
     /\ product_info # None
     /\ product_info # EmptyDict
     /\ ("ingredients" \in DOMAIN product_info.d => product_info.d["ingredients"].type = "str"))
    =>
        /\ HasVerdict
        /\ NoIngredientText(product_info) => SafeWithNoConflicts

\* a user with an allergy and a product with display fields but no ingredients
C4_Witness ==
    /\ SafeWithNoConflicts
    /\ "ingredients" \notin DOMAIN product_info.d
    /\ locals.user_allergies # <<>>

\* sub is s with some elements left out, the others in their order
IsSubsequence(sub, s) ==
    \E f \in [1..Len(sub) -> 1..Len(s)] :
        /\ \A i \in 1..Len(sub) : s[f[i]] = sub[i]
        /\ \A i, j \in 1..Len(sub) : i < j => f[i] < f[j]

\* C5: conflicting_allergies is an order-preserving subsequence of the
\* normalized allergy tokens, and conflicting_conditions of the normalized
\* condition tokens, wherever the tokens occur in the ingredient text.
C5_OrderOfUserField ==
    HasVerdict =>
        /\ IsSubsequence(safety_report.d.conflicting_allergies, locals.user_allergies)
        /\ IsSubsequence(safety_report.d.conflicting_conditions, locals.user_conditions)

\* "b" before "a" in the user's field, "a" before "b" in the ingredient text
C5_Witness ==
    /\ HasVerdict
    /\ IngredientText(product_info) = <<"a", "b">>
    /\ safety_report.d.conflicting_allergies = << <<"b">>, <<"a">> >>

\* C6: for a user whose allergies and health_conditions are both "" and a
\* product with any ingredient text, the verdict is safe with both conflict
\* sequences empty.
C6_EmptyProfileIsSafe ==
    (/\ Returned
     /\ user # None
     /\ user.allergies.v = <<>>
     /\ user.health_conditions.v = <<>>
     /\ product_info.type = "dict"
     /\ "ingredients" \in DOMAIN product_info.d
     /\ product_info.d["ingredients"].type = "str")
    => SafeWithNoConflicts

\* an empty profile against a non-empty ingredient text
C6_Witness ==
    /\ SafeWithNoConflicts
    /\ user.allergies.v = <<>>
    /\ user.health_conditions.v = <<>>
    /\ IngredientText(product_info) = <<"a", "b">>

\* the pieces of a field between its commas, by position
CommaPositions(s) == {i \in 1..Len(s) : s[i] = ","}
Boundaries(s) == {0} \cup CommaPositions(s) \cup {Len(s) + 1}
\* the k-th smallest element of a set of numbers
Nth(S, k) == CHOOSE x \in S : Cardinality({y \in S : y < x}) = k - 1
Piece(s, k) == SubSeq(s, Nth(Boundaries(s), k) + 1, Nth(Boundaries(s), k + 1) - 1)
\* a piece without its leading and trailing spaces
Trimmed(p) ==
    LET ink == {i \in 1..Len(p) : p[i] # " "}
    IN  IF ink = {} THEN <<>>
        ELSE SubSeq(p, Nth(ink, 1), Nth(ink, Cardinality(ink)))
\* tokens is the trimmed, lower-cased, non-empty pieces of field, in order,
\* repeats kept
IsNormalizationOf(tokens, field) ==
    LET kept == {k \in 1..(Cardinality(CommaPositions(field)) + 1) :
                    Trimmed(Piece(field, k)) # <<>>}
    IN  /\ Len(tokens) = Cardinality(kept)
        /\ \A i \in 1..Len(tokens) :
              /\ tokens[i] = lower(Trimmed(Piece(field, Nth(kept, i))))
              /\ tokens[i] # <<>>
              /\ tokens[i][1] # " "
              /\ tokens[i][Len(tokens[i])] # " "

\* C7: the tokens of a comma-separated field are exactly its pieces between
\* commas, stripped and lower-cased, in input order, empty pieces discarded and
\* repeats kept; no token is empty or has leading or trailing whitespace; stray
\* commas cause no error.
C7_TokenNormalization ==
    (/\ Returned
     /\ user # None
     /\ Truthy(product_info)
     /\ Get(product_info, "ingredients", PyStr(<<>>)).type = "str")
    =>
        /\ locals # None
        /\ display = <<>>
        /\ IsNormalizationOf(locals.user_allergies, user.allergies.v)
        /\ IsNormalizationOf(locals.user_conditions, user.health_conditions.v)

\* a stray comma, an upper-case letter and a trailing space: ",B " gives ["b"]
C7_Witness ==
    /\ HasVerdict
    /\ user.allergies.v = <<",", "B", " ">>
    /\ locals.user_allergies = << <<"b">> >>

(***************************************************************************)
(* Properties of a run of the scan handler.                                *)
(***************************************************************************)
WasShown(m) == m \in Range(display)

\* C9: the "appears to be safe" message is shown only when the image decoded
\* to at least one payload, the lookup returned a product record and the
\* engine returned a verdict with is_safe true; after a failed or empty
\* decoding, a failed or empty lookup, or a failed engine call it is not shown.
C9_NoSilentSafe ==
    WasShown(SafeMessage) =>
        /\ ~image.raises
        /\ \E i \in 1..Len(image.barcodes) : image.barcodes[i].utf8
        /\ barcode_results.type = "list"
        /\ Len(barcode_results.v) >= 1
        /\ response.kind = "json"
        /\ Truthy(Get(response.data, "product", None))
        /\ product_info.type = "dict"
        /\ product_info.d.ingredients.type = "str"
        /\ safety_report.type = "dict"
        /\ safety_report.d.is_safe

\* the engine failed on a product whose ingredients are not a str
C9_Witness ==
    /\ pc = "shown"
    /\ product_info.type = "dict"
    /\ safety_report = None
    /\ WasShown(Shown("error", "Error checking product safety"))
    /\ ~WasShown(SafeMessage)

\* the three outcomes of a lookup that returned no product
LookupNotFound ==
    /\ response.kind = "json"
    /\ response.data.type = "dict"
    /\ ~Truthy(Get(response.data, "product", None))
LookupUnavailable == response.kind = "RequestException"
LookupInvalidResponse == response.kind \in {"ValueError", "requests.JSONDecodeError"}

\* C10: a barcode with no matching product is reported as a NotFound outcome
\* that is not an error and that the caller can tell from LookupUnavailable and
\* LookupInvalidResponse, each of the three with its own message: the
\* not-found message is shown for NotFound alone and with no error of the
\* lookup, the failed-to-fetch message for LookupUnavailable alone, the
\* invalid-data message for LookupInvalidResponse alone.
C10_LookupOutcomesDistinct ==
    (pc = "shown" /\ response # None) =>
        /\ WasShown(NotFoundMessage) <=> LookupNotFound
        /\ WasShown(Shown("error", "Failed to fetch product data")) <=> LookupUnavailable
        /\ WasShown(Shown("error", "Invalid product data received")) <=> LookupInvalidResponse
        /\ LookupNotFound =>
              display = <<Shown("success", "Barcode detected"), NotFoundMessage>>

(***************************************************************************)
(* Properties of the users table and the session state.                    *)
(***************************************************************************)
\* a step that takes rows out of the users table: none of the pages does
RowsDeleted == users' # users /\ users' \subseteq users

UniqueMobile == \A u1, u2 \in users : u1.mobile = u2.mobile => u1 = u2

RejectionMessages ==
    {Shown("error", "Username, name, and mobile number are required."),
     Shown("error", "A user with this mobile number already exists."),
     Shown("error", "An unexpected error occurred")}

\* what a run of a page does to the users table
TableStep ==
    ~RowsDeleted =>
        \* a run of the register page keeps every stored user and adds at most
        \* one, with username, name and mobile non-empty and the mobile new
        /\ current_page = "register" =>
              /\ users \subseteq users'
              /\ Cardinality(users' \ users) <= 1
              /\ \A r \in users' \ users :
                    /\ Truthy(r.username) /\ Truthy(r.name) /\ Truthy(r.mobile)
                    /\ \A u \in users : u.mobile # r.mobile
        \* a run that reports a rejected registration or a failed commit leaves
        \* the table as it was
        /\ (\E m \in RejectionMessages : m \in Range(display')) => users' = users
        \* a profile update changes no mobile number
        /\ current_page = "update_profile" =>
              {u.mobile : u \in users'} = {u.mobile : u \in users}

\* C11: no two stored users share a mobile number, whatever registrations and
\* profile updates were attempted; a registration with a stored mobile or with
\* an empty username, name or mobile adds no user and changes no stored user;
\* a registration whose commit fails leaves the table unchanged.
C11_MobileIsUniqueKey == []UniqueMobile /\ [][TableStep]_vars

\* a registration was refused because its mobile number is stored already
C11_Witness ==
    /\ current_page = "register"
    /\ display = <<PageTitle("register"),
                   Shown("error", "A user with this mobile number already exists.")>>
    /\ users # {}

SessionConsistent == logged_in <=> user_mobile # None

ProtectedContentIn(shown) ==
    \E p \in ProtectedPages : PageTitle(p) \in Range(shown)

LoggedOut == SessionState(FALSE, None, "login")

\* every session state a run could start from
SessionStates ==
    {SessionState(li, um, cp) :
        li \in BOOLEAN, um \in {None} \cup TypedNames,
        cp \in ProtectedPages \cup {"login", "register"}}

\* a run from a protected page with logged_in false goes to 'login', and one
\* whose user_mobile is not in the table logs out; neither shows the page
GuardsOfProtectedPages ==
    \A s \in SessionStates :
        LET r == render(s, users)
            found == \E u \in users : u.mobile = s.user_mobile
        IN  s.current_page \in ProtectedPages =>
              /\ ~s.logged_in =>
                    /\ r.session.current_page = "login"
                    /\ ~ProtectedContentIn(r.display)
              /\ (s.logged_in /\ ~found) =>
                    /\ r.session = LoggedOut
                    /\ ~ProtectedContentIn(r.display)
              /\ ProtectedContentIn(r.display) => (s.logged_in /\ found)

\* what a run does to the session state
SessionStep ==
    ~RowsDeleted =>
        \* the content of a protected page is shown only for a logged-in
        \* session whose user_mobile is the mobile of the stored user shown
        /\ ProtectedContentIn(display') =>
              /\ logged_in'
              /\ user' \in users'
              /\ user'.mobile = user_mobile'
        /\ (current_page \in ProtectedPages /\ ~logged_in) => current_page' = "login"
        /\ (/\ current_page \in ProtectedPages
            /\ logged_in
            /\ ~\E u \in users : u.mobile = user_mobile)
           => Session' = LoggedOut

\* C12: after any logins, logouts and navigations, the content of a protected
\* page is processed only while logged_in is true and user_mobile is the mobile
\* of a stored user; logged_in is true iff user_mobile is not None; a run with a
\* protected current_page and logged_in false sets current_page to 'login'; a
\* run whose user_mobile is not in the table logs out, leaving logged_in false,
\* user_mobile None and current_page 'login'.
C12_ProtectedPagesNeedLogin ==
    [](SessionConsistent /\ GuardsOfProtectedPages) /\ [][SessionStep]_vars

\* a run found the logged-in user's row gone and logged out
C12_Witness ==
    /\ pc = "rerun"
    /\ display = <<Shown("error", "User not found.")>>
    /\ Session = LoggedOut

====
